---- MODULE Spec2Model ----
(***************************************************************************)
(* Proposals codex module (runtime-modules/proposals/codex/src/lib.rs).    *)
(*                                                                         *)
(* The codex is the entry point of the proposals system: create_proposal   *)
(* validates the ProposalDetails, opens a discussion thread, admits the    *)
(* proposal in the engine and records the thread id and the details under  *)
(* the proposal id; proposal_removed is the engine's disposal callback;    *)
(* three root-only extrinsics execute accepted proposals.                  *)
(*                                                                         *)
(* The engine, the discussion module, the membership origin validator, the *)
(* council, the staking module and frame_system are other crates: their    *)
(* storage appears here as far as the codex reads or writes it.            *)
(***************************************************************************)
EXTENDS Integers, Sequences, FiniteSets, TLC

(***************************************************************************)
(* Bounds of the model.                                                    *)
(***************************************************************************)
\* proposal ids the engine mints
MaxProposals == 2
\* thread ids the discussion module mints
MaxThreads == 2
\* post ids the discussion module mints
MaxPosts == 1
\* largest value of the Balance type (BalanceOf<T>), standing for its MAX
MaxBalance == 1
\* longest title, description, blob and enumerated funding-request list
MaxLen == 2

(***************************************************************************)
(* Program constants.                                                      *)
(***************************************************************************)
MAX_SPENDING_PROPOSAL_VALUE == 5000000
MAX_VALIDATOR_COUNT == 100
MAX_FUNDING_REQUEST_ACCOUNTS == 100
\* value a `map ... => T::ThreadId` getter returns for an absent key
DefaultThreadId == 0

Min(a, b) == IF a <= b THEN a ELSE b

(***************************************************************************)
(* Types.                                                                  *)
(***************************************************************************)
WorkingGroup == {"Forum", "Storage", "Content", "Membership"}
BalanceKind == {"Positive", "Negative"}
Balance == 0..MaxBalance

\* RawOrigin: Root or Signed(account)
Accounts == {"alice", "bob"}
Origins == {"Root"} \cup Accounts

\* ProposalDetails: a tag and the payload fields the codex looks at.
\*   bytes: the first blob (signal, wasm, constitution, opening description, header)
\*   body : the second blob (blog post body)
\*   num  : the numeric payload (validator count, stake amount, budget amount, ...)
\*   reqs : the funding requests, a sequence of [account, amount]
ProposalDetails(tag, bytes, body, num, reqs) ==
    [tag |-> tag, bytes |-> bytes, body |-> body, num |-> num, reqs |-> reqs]

Signal(signal) == ProposalDetails("Signal", signal, <<>>, 0, <<>>)
RuntimeUpgrade(blob) == ProposalDetails("RuntimeUpgrade", blob, <<>>, 0, <<>>)
FundingRequest(reqs) == ProposalDetails("FundingRequest", <<>>, <<>>, 0, reqs)
SetMaxValidatorCount(n) == ProposalDetails("SetMaxValidatorCount", <<>>, <<>>, n, <<>>)
DecreaseWorkingGroupLeadStake(n) ==
    ProposalDetails("DecreaseWorkingGroupLeadStake", <<>>, <<>>, n, <<>>)
SlashWorkingGroupLead(n) == ProposalDetails("SlashWorkingGroupLead", <<>>, <<>>, n, <<>>)
UpdateWorkingGroupBudgetDetails(n) ==
    ProposalDetails("UpdateWorkingGroupBudget", <<>>, <<>>, n, <<>>)

\* the variants ensure_details_checks has no check for
UncheckedTags ==
    { "CreateWorkingGroupLeadOpening", "FillWorkingGroupLeadOpening",
      "UpdateWorkingGroupBudget", "SlashWorkingGroupLead",
      "SetWorkingGroupLeadReward", "TerminateWorkingGroupLead",
      "AmendConstitution", "CancelWorkingGroupLeadOpening", "SetMembershipPrice",
      "SetCouncilBudgetIncrement", "SetCouncilorReward",
      "SetInitialInvitationBalance", "SetInitialInvitationCount",
      "SetMembershipLeadInvitationQuota", "SetReferralCut", "CreateBlogPost",
      "EditBlogPost", "LockBlogPost", "UnlockBlogPost" }

VariantTags ==
    { "Signal", "RuntimeUpgrade", "FundingRequest", "SetMaxValidatorCount",
      "DecreaseWorkingGroupLeadStake" } \cup UncheckedTags

\* the "absent" value of the bookkeeping record below
NoDetails == ProposalDetails("", <<>>, <<>>, 0, <<>>)

(***************************************************************************)
(* State.                                                                  *)
(***************************************************************************)
VARIABLES
    ThreadIdByProposalId,        \* codex: proposal id -> thread id
    ProposalDetailsByProposalId, \* codex: proposal id -> ProposalDetails
    ThreadById,                  \* discussion: thread id -> [author_id, mode]
    PostThreadIdByPostId,        \* discussion: the (thread id, post id) keys
    ThreadCount,                 \* discussion: threads created so far
    PostCount,                   \* discussion: posts created so far
    Proposals,                   \* engine: proposal id -> creation parameters
    ProposalCount,               \* engine: proposals created so far
    Code,                        \* frame_system: the runtime code
    Budget,                      \* council: the council budget
    WorkingGroupBudget,          \* working groups: group -> budget
    MinimumValidatorCount,       \* staking: minimum validator count
    last,                        \* the last call: its arguments and result
    applied                      \* the inputs of a call made on the genesis chain

codexVars == <<ThreadIdByProposalId, ProposalDetailsByProposalId>>
discussionVars == <<ThreadById, PostThreadIdByPostId, ThreadCount, PostCount>>
engineVars == <<Proposals, ProposalCount>>
budgetVars == <<Budget, WorkingGroupBudget>>
stateVars ==
    <<codexVars, discussionVars, engineVars, budgetVars, Code, MinimumValidatorCount>>
vars == <<stateVars, last, applied>>

(***************************************************************************)
(* Storage primitives.                                                     *)
(***************************************************************************)
\* a write that replaces the whole map by the one entry
insert_only(map, key, value) == [k \in {key} |-> value]

\* StorageMap::insert
insert(map, key, value) ==
    [k \in DOMAIN map \cup {key} |-> IF k = key THEN value ELSE map[k]]

\* a removal that takes the greatest key up to `key` instead of `key` itself
remove_floor(map, key) ==
    LET below == {k \in DOMAIN map : k <= key}
    IN  IF below = {} THEN map
        ELSE [k \in DOMAIN map \ {CHOOSE m \in below : \A j \in below : j <= m}
                |-> map[k]]

\* StorageMap::remove: a no-op on an absent key
remove(map, key) == [k \in DOMAIN map \ {key} |-> map[k]]

\* a removal of every entry of the double map, whatever its first key
remove_all(keys, prefix) == {}

\* StorageDoubleMap::remove_prefix: every entry whose first key is `prefix`
remove_prefix(keys, prefix) == {k \in keys : k[1] # prefix}

\* a getter that falls back to the proposal id for an absent key
thread_id_or_proposal_id(map, proposal_id) ==
    IF proposal_id \in DOMAIN map THEN map[proposal_id] ELSE proposal_id

\* the generated getter `fn thread_id_by_proposal_id`: the value, or the default
thread_id_by_proposal_id(map, proposal_id) ==
    IF proposal_id \in DOMAIN map THEN map[proposal_id] ELSE DefaultThreadId

(***************************************************************************)
(* Collaborators the codex calls.                                          *)
(***************************************************************************)
\* an origin check that lets every signed origin through
ensure_root_or_signed(origin) ==
    IF origin \in {"Root"} \cup Accounts THEN "Ok" ELSE "BadOrigin"

\* frame_system::ensure_root: Ok for RawOrigin::Root, BadOrigin otherwise
ensure_root(origin) == IF origin = "Root" THEN "Ok" ELSE "BadOrigin"

\* membership: the controller account of each member
ControllerAccount == [m \in {1} |-> "alice"]
MemberIds == {1, 2}

\* MemberOriginValidator::ensure_member_controller_account_origin: the account
\* of a signed origin that controls the member, or an error
ensure_member_controller_account_origin(origin, member_id) ==
    IF /\ origin \in Accounts
       /\ member_id \in DOMAIN ControllerAccount
       /\ ControllerAccount[member_id] = origin
    THEN [result |-> "Ok", account_id |-> origin]
    ELSE [result |-> "MemberAuthFailed", account_id |-> ""]

\* engine: ensure_create_proposal_parameters_are_valid (title and description
\* bounds; the staking account and the exact execution block are passed through)
ensure_create_proposal_parameters_are_valid(parameters, title, description, staking_account_id, exact_execution_block) ==
    IF title = <<>> THEN "EmptyTitleProvided"
    ELSE IF description = <<>> THEN "EmptyDescriptionProvided"
    ELSE "Ok"

\* discussion: ensure_can_create_thread answers for the given mode
ensure_can_create_thread(mode, allowed) ==
    IF allowed THEN "Ok" ELSE "CannotCreateThread"

\* ProposalEncoder::encode_proposal: the opaque dispatchable call of the details
encode_proposal(details) ==
    [ call |-> details.tag,
      args |-> <<details.bytes, details.body, details.num, details.reqs>> ]

\* an addition of the Balance type that wraps around
wrapping_add(a, b) == (a + b) % (MaxBalance + 1)

\* Saturating::saturating_add of the Balance type
saturating_add(a, b) == Min(a + b, MaxBalance)

(***************************************************************************)
(* ensure_details_checks                                                   *)
(***************************************************************************)
\* a loop body that looks at the amount of a request before it looks at its
\* account
funding_request_checks_amount_first(funding_requests, i) ==
    LET funding_request == funding_requests[i]
        visited_accounts == {funding_requests[j].account : j \in 1..(i - 1)}
    IN  IF funding_request.amount = 0
        THEN "InvalidFundingRequestProposalBalance"
        ELSE IF ~(funding_request.amount <= MAX_SPENDING_PROPOSAL_VALUE)
        THEN "InvalidFundingRequestProposalBalance"
        ELSE IF funding_request.account \in visited_accounts
        THEN "InvalidFundingRequestProposalRepeatedAccount"
        ELSE "Ok"

\* the body of the loop over the funding requests at index i: when the loop
\* gets there, every earlier request has passed and its account is in
\* visited_accounts
funding_request_checks_at(funding_requests, i) ==
    LET funding_request == funding_requests[i]
        visited_accounts == {funding_requests[j].account : j \in 1..(i - 1)}
    IN  IF funding_request.account \in visited_accounts
        THEN "InvalidFundingRequestProposalRepeatedAccount"
        ELSE IF funding_request.amount = 0
        THEN "InvalidFundingRequestProposalBalance"
        ELSE IF ~(funding_request.amount <= MAX_SPENDING_PROPOSAL_VALUE)
        THEN "InvalidFundingRequestProposalBalance"
        ELSE "Ok"

\* the loop over the funding requests: it returns at the first request that
\* fails a check of the body
funding_requests_loop(funding_requests) ==
    LET failing == { i \in 1..Len(funding_requests) :
                        funding_request_checks_at(funding_requests, i) # "Ok" }
    IN  IF failing = {} THEN "Ok"
        ELSE funding_request_checks_at(
                 funding_requests, CHOOSE i \in failing : \A j \in failing : i <= j)

\* the Signal arm
signal_unchecked(signal) == "Ok"

signal_checks(signal) == IF signal # <<>> THEN "Ok" ELSE "SignalProposalIsEmpty"

\* the RuntimeUpgrade arm
runtime_upgrade_checks(blob) ==
    IF blob # <<>> THEN "Ok" ELSE "RuntimeProposalIsEmpty"

\* a FundingRequest arm whose length check is `<` in place of `<=`
funding_request_checks_below_max(funding_requests) ==
    IF funding_requests = <<>>
    THEN "InvalidFundingRequestProposalNumberOfAccount"
    ELSE IF ~(Len(funding_requests) < MAX_FUNDING_REQUEST_ACCOUNTS)
    THEN "InvalidFundingRequestProposalNumberOfAccount"
    ELSE funding_requests_loop(funding_requests)

\* the FundingRequest arm
funding_request_checks(funding_requests) ==
    IF funding_requests = <<>>
    THEN "InvalidFundingRequestProposalNumberOfAccount"
    ELSE IF ~(Len(funding_requests) <= MAX_FUNDING_REQUEST_ACCOUNTS)
    THEN "InvalidFundingRequestProposalNumberOfAccount"
    ELSE funding_requests_loop(funding_requests)

\* a SetMaxValidatorCount arm whose lower check is `>` in place of `>=`
set_max_validator_count_checks_above_min(new_validator_count) ==
    IF ~(new_validator_count > MinimumValidatorCount) THEN "InvalidValidatorCount"
    ELSE IF ~(new_validator_count <= MAX_VALIDATOR_COUNT)
    THEN "InvalidValidatorCount"
    ELSE "Ok"

\* the SetMaxValidatorCount arm
set_max_validator_count_checks(new_validator_count) ==
    IF ~(new_validator_count >= MinimumValidatorCount) THEN "InvalidValidatorCount"
    ELSE IF ~(new_validator_count <= MAX_VALIDATOR_COUNT)
    THEN "InvalidValidatorCount"
    ELSE "Ok"

\* the DecreaseWorkingGroupLeadStake arm
decrease_working_group_lead_stake_checks(stake_amount) ==
    IF stake_amount # 0 THEN "Ok" ELSE "DecreasingStakeIsZero"

\* arms that refuse a zero amount as the DecreaseWorkingGroupLeadStake arm does
zero_amount_checks(details) ==
    IF details.tag = "SlashWorkingGroupLead" /\ details.num = 0
    THEN "SlashingStakeIsZero"
    ELSE "Ok"

\* the arms with the comment "Note: No checks for this proposal for now"
no_checks(details) == "Ok"

ensure_details_checks(details) ==
    IF details.tag = "Signal" THEN signal_checks(details.bytes)
    ELSE IF details.tag = "RuntimeUpgrade" THEN runtime_upgrade_checks(details.bytes)
    ELSE IF details.tag = "FundingRequest" THEN funding_request_checks(details.reqs)
    ELSE IF details.tag = "SetMaxValidatorCount"
    THEN set_max_validator_count_checks(details.num)
    ELSE IF details.tag = "DecreaseWorkingGroupLeadStake"
    THEN decrease_working_group_lead_stake_checks(details.num)
    ELSE no_checks(details)

(***************************************************************************)
(* get_proposal_parameters: the configured parameters of the variant       *)
(***************************************************************************)
\* a lookup whose match ends in a wildcard arm
get_proposal_parameters_wildcard(details) ==
    CASE details.tag = "Signal" -> "SignalProposalParameters"
      [] details.tag = "RuntimeUpgrade" -> "RuntimeUpgradeProposalParameters"
      [] OTHER -> "FundingRequestProposalParameters"

get_proposal_parameters(details) ==
    CASE details.tag = "Signal" -> "SignalProposalParameters"
      [] details.tag = "RuntimeUpgrade" -> "RuntimeUpgradeProposalParameters"
      [] details.tag = "FundingRequest" -> "FundingRequestProposalParameters"
      [] details.tag = "SetMaxValidatorCount" ->
            "SetMaxValidatorCountProposalParameters"
      [] details.tag = "FillWorkingGroupLeadOpening" ->
            "FillWorkingGroupLeadOpeningProposalParameters"
      [] details.tag = "UpdateWorkingGroupBudget" ->
            "UpdateWorkingGroupBudgetProposalParameters"
      [] details.tag = "DecreaseWorkingGroupLeadStake" ->
            "DecreaseWorkingGroupLeadStakeProposalParameters"
      [] details.tag = "SlashWorkingGroupLead" ->
            "SlashWorkingGroupLeadProposalParameters"
      [] details.tag = "SetWorkingGroupLeadReward" ->
            "SetWorkingGroupLeadRewardProposalParameters"
      [] details.tag = "TerminateWorkingGroupLead" ->
            "TerminateWorkingGroupLeadProposalParameters"
      [] details.tag = "CreateWorkingGroupLeadOpening" ->
            "CreateWorkingGroupLeadOpeningProposalParameters"
      [] details.tag = "AmendConstitution" -> "AmendConstitutionProposalParameters"
      [] details.tag = "SetMembershipPrice" -> "SetMembershipPriceProposalParameters"
      [] details.tag = "CancelWorkingGroupLeadOpening" ->
            "CancelWorkingGroupLeadOpeningProposalParameters"
      [] details.tag = "SetCouncilBudgetIncrement" ->
            "SetCouncilBudgetIncrementProposalParameters"
      [] details.tag = "SetCouncilorReward" -> "SetCouncilorRewardProposalParameters"
      [] details.tag = "SetInitialInvitationBalance" ->
            "SetInitialInvitationBalanceProposalParameters"
      [] details.tag = "SetInitialInvitationCount" ->
            "SetInvitationCountProposalParameters"
      [] details.tag = "SetMembershipLeadInvitationQuota" ->
            "SetMembershipLeadInvitationQuotaProposalParameters"
      [] details.tag = "SetReferralCut" -> "SetReferralCutProposalParameters"
      [] details.tag = "CreateBlogPost" -> "CreateBlogPostProposalParameters"
      [] details.tag = "EditBlogPost" -> "EditBlogPostProoposalParamters"
      [] details.tag = "LockBlogPost" -> "LockBlogPostProposalParameters"
      [] details.tag = "UnlockBlogPost" -> "UnlockBlogPostProposalParameters"

(***************************************************************************)
(* get_create_proposal_weight                                              *)
(***************************************************************************)
\* WeightInfo: the benchmarked weight functions, here strictly increasing in
\* each of their arguments
create_proposal_signal(i, t, d) == 1 + i + t + d
create_proposal_runtime_upgrade(i, t, d) == 2 + i + t + d
create_proposal_funding_request(i) == 3 + i
create_proposal_set_max_validator_count(d) == 4 + d
create_proposal_create_working_group_lead_opening(i) == 5 + i
create_proposal_fill_working_group_lead_opening == 6
create_proposal_update_working_group_budget(d) == 7 + d
create_proposal_decrease_working_group_lead_stake(t, d) == 8 + t + d
create_proposal_slash_working_group_lead(t, d) == 9 + t + d
create_proposal_set_working_group_lead_reward(d) == 10 + d
create_proposal_terminate_working_group_lead == 11
create_proposal_amend_constitution(i, t, d) == 12 + i + t + d
create_proposal_cancel_working_group_lead_opening(t, d) == 13 + t + d
create_proposal_set_membership_price == 14
create_proposal_set_council_budget_increment == 15
create_proposal_set_councilor_reward(t) == 16 + t
create_proposal_set_initial_invitation_balance(t, d) == 17 + t + d
create_proposal_set_initial_invitation_count == 18
create_proposal_set_membership_lead_invitation_quota(t) == 19 + t
create_proposal_set_referral_cut(t) == 20 + t
create_proposal_create_blog_post(t, d, h, b) == 21 + t + d + h + b
create_proposal_edit_blog_post(t, d, h, b) == 22 + t + d + h + b
create_proposal_lock_blog_post(t) == 23 + t
create_proposal_unlock_blog_post == 24

\* SaturatedConversion::saturated_into::<u32>() of a usize length; the bound is
\* held at the largest integer the model computes with
saturated_into(n) == Min(n, 2147483647)

\* a title length read from the description
title_length_of_description(general) == Len(general.description)

\* let title_length = general.title.len()
title_length(general) == Len(general.title)

\* let description_length = general.description.len()
description_length(general) == Len(general.description)

\* header.as_ref().map_or(0, |h| h.len()): an absent header or body of
\* EditBlogPost is held as the empty blob, both have length 0
map_or_len(blob) == Len(blob)

get_create_proposal_weight(general, details) ==
    LET t == saturated_into(title_length(general))
        d == saturated_into(description_length(general))
    IN  CASE details.tag = "Signal" ->
               create_proposal_signal(saturated_into(Len(details.bytes)), t, d)
          [] details.tag = "RuntimeUpgrade" ->
               create_proposal_runtime_upgrade(
                   saturated_into(Len(details.bytes)), t, d)
          [] details.tag = "FundingRequest" ->
               create_proposal_funding_request(saturated_into(Len(details.reqs)))
          [] details.tag = "SetMaxValidatorCount" ->
               create_proposal_set_max_validator_count(d)
          [] details.tag = "CreateWorkingGroupLeadOpening" ->
               create_proposal_create_working_group_lead_opening(
                   saturated_into(Len(details.bytes)))
          [] details.tag = "FillWorkingGroupLeadOpening" ->
               create_proposal_fill_working_group_lead_opening
          [] details.tag = "UpdateWorkingGroupBudget" ->
               create_proposal_update_working_group_budget(d)
          [] details.tag = "DecreaseWorkingGroupLeadStake" ->
               create_proposal_decrease_working_group_lead_stake(t, d)
          [] details.tag = "SlashWorkingGroupLead" ->
               create_proposal_slash_working_group_lead(t, d)
          [] details.tag = "SetWorkingGroupLeadReward" ->
               create_proposal_set_working_group_lead_reward(d)
          [] details.tag = "TerminateWorkingGroupLead" ->
               create_proposal_terminate_working_group_lead
          [] details.tag = "AmendConstitution" ->
               create_proposal_amend_constitution(
                   saturated_into(Len(details.bytes)), t, d)
          [] details.tag = "SetMembershipPrice" ->
               create_proposal_set_membership_price
          [] details.tag = "CancelWorkingGroupLeadOpening" ->
               create_proposal_cancel_working_group_lead_opening(t, d)
          [] details.tag = "SetCouncilBudgetIncrement" ->
               create_proposal_set_council_budget_increment
          [] details.tag = "SetCouncilorReward" ->
               create_proposal_set_councilor_reward(t)
          [] details.tag = "SetInitialInvitationBalance" ->
               create_proposal_set_initial_invitation_balance(t, d)
          [] details.tag = "SetInitialInvitationCount" ->
               create_proposal_set_initial_invitation_count
          [] details.tag = "SetMembershipLeadInvitationQuota" ->
               create_proposal_set_membership_lead_invitation_quota(t)
          [] details.tag = "SetReferralCut" -> create_proposal_set_referral_cut(t)
          [] details.tag = "CreateBlogPost" ->
               create_proposal_create_blog_post(
                   t, d, saturated_into(Len(details.bytes)),
                   saturated_into(Len(details.body)))
          [] details.tag = "EditBlogPost" ->
               create_proposal_edit_blog_post(
                   t, d, saturated_into(map_or_len(details.bytes)),
                   saturated_into(map_or_len(details.body)))
          [] details.tag = "LockBlogPost" -> create_proposal_lock_blog_post(t)
          [] details.tag = "UnlockBlogPost" ->
               saturated_into(create_proposal_unlock_blog_post)

(***************************************************************************)
(* The record of the last call.                                            *)
(***************************************************************************)
NoCall ==
    [ op |-> "", result |-> "", gate |-> "", proposal_id |-> 0, thread_id |-> 0,
      details |-> NoDetails, origin |-> "", working_group |-> "", amount |-> 0,
      balance_kind |-> "", again |-> FALSE, had_record |-> FALSE ]

\* the inputs of a call made on the genesis chain, and the value a pure
\* function returned for them
NoApplication ==
    [ fn |-> "", origin |-> "", member_id |-> 0, title |-> <<>>,
      description |-> <<>>, details |-> NoDetails, thread_allowed |-> FALSE,
      engine_result |-> "", value |-> "", weight |-> 0 ]

(***************************************************************************)
(* create_proposal                                                         *)
(***************************************************************************)
\* ThreadMode::Closed in place of ThreadMode::Open
closed_thread_mode == "Closed"

initial_thread_mode == "Open"

\* discussion: create_thread mints the next thread id and stores the thread
create_thread(thread_id, author_id, mode) ==
    /\ ThreadById' = insert(ThreadById, thread_id, [author_id |-> author_id, mode |-> mode])
    /\ ThreadCount' = thread_id
    /\ UNCHANGED <<PostThreadIdByPostId, PostCount>>

\* a failed gate that has opened the thread before it returned its error
Rejected_after_thread(gate, error, details) ==
    /\ create_thread(ThreadCount + 1, 1, initial_thread_mode)
    /\ last' = [NoCall EXCEPT !.op = "create_proposal", !.result = error,
                              !.gate = gate, !.details = details]
    /\ UNCHANGED <<codexVars, engineVars, budgetVars, Code, MinimumValidatorCount>>

\* the `?` of a gate before the thread is created: the error is returned and
\* nothing has been written
Rejected(gate, error, details) ==
    /\ last' = [NoCall EXCEPT !.op = "create_proposal", !.result = error,
                              !.gate = gate, !.details = details]
    /\ UNCHANGED stateVars

\* a failed admission that takes back the thread it had opened
AdmissionFailed_rollback(thread_id, author_id, error, details) ==
    /\ last' = [NoCall EXCEPT !.op = "create_proposal", !.result = error,
                              !.gate = "engine_create_proposal",
                              !.thread_id = thread_id, !.details = details]
    /\ UNCHANGED stateVars

\* the `?` of the engine's create_proposal: the thread is already stored, the
\* error is returned, the codex maps are not written
AdmissionFailed(thread_id, author_id, error, details) ==
    /\ create_thread(thread_id, author_id, initial_thread_mode)
    /\ last' = [NoCall EXCEPT !.op = "create_proposal", !.result = error,
                              !.gate = "engine_create_proposal",
                              !.thread_id = thread_id, !.details = details]
    /\ UNCHANGED <<codexVars, engineVars, budgetVars, Code, MinimumValidatorCount>>

\* the thread is stored, the engine has returned proposal_id, the codex maps
\* get their two entries
Admitted(proposal_id, thread_id, author_id, creation_params, details) ==
    /\ create_thread(thread_id, author_id, initial_thread_mode)
    /\ Proposals' = insert(Proposals, proposal_id, creation_params)
    /\ ProposalCount' = proposal_id
    /\ ThreadIdByProposalId' = insert(ThreadIdByProposalId, proposal_id, thread_id)
    /\ ProposalDetailsByProposalId' =
           insert(ProposalDetailsByProposalId, proposal_id, details)
    /\ last' = [NoCall EXCEPT !.op = "create_proposal", !.result = "Ok",
                              !.proposal_id = proposal_id,
                              !.thread_id = thread_id, !.details = details]
    /\ UNCHANGED <<budgetVars, Code, MinimumValidatorCount>>

\* a create_proposal that authenticates the member before it checks the details
create_proposal_member_first(origin, general, details, thread_allowed, engine_result) ==
    LET checks == ensure_details_checks(details)
        proposal_parameters == get_proposal_parameters(details)
        proposal_code == encode_proposal(details)
        account == ensure_member_controller_account_origin(origin, general.member_id)
        valid == ensure_create_proposal_parameters_are_valid(
                     proposal_parameters, general.title, general.description,
                     general.staking_account_id, general.exact_execution_block)
        can_create == ensure_can_create_thread(initial_thread_mode, thread_allowed)
        discussion_thread_id == ThreadCount + 1
        proposal_creation_params ==
            [ account_id |-> account.account_id,
              proposer_id |-> general.member_id,
              proposal_parameters |-> proposal_parameters,
              title |-> general.title,
              description |-> general.description,
              staking_account_id |-> general.staking_account_id,
              encoded_dispatchable_call_code |-> proposal_code,
              exact_execution_block |-> general.exact_execution_block ]
    IN  IF account.result # "Ok"
        THEN Rejected("member_origin", account.result, details)
        ELSE IF checks # "Ok" THEN Rejected("details_checks", checks, details)
        ELSE IF valid # "Ok" THEN Rejected("engine_parameters", valid, details)
        ELSE IF can_create # "Ok"
        THEN Rejected("can_create_thread", can_create, details)
        ELSE IF engine_result # "Ok"
        THEN AdmissionFailed(discussion_thread_id, general.member_id,
                             engine_result, details)
        ELSE Admitted(ProposalCount + 1, discussion_thread_id, general.member_id,
                      proposal_creation_params, details)

\* thread_allowed is the discussion module's answer to ensure_can_create_thread,
\* engine_result the engine's answer to create_proposal
create_proposal(origin, general, details, thread_allowed, engine_result) ==
    LET checks == ensure_details_checks(details)
        proposal_parameters == get_proposal_parameters(details)
        proposal_code == encode_proposal(details)
        account == ensure_member_controller_account_origin(origin, general.member_id)
        valid == ensure_create_proposal_parameters_are_valid(
                     proposal_parameters, general.title, general.description,
                     general.staking_account_id, general.exact_execution_block)
        can_create == ensure_can_create_thread(initial_thread_mode, thread_allowed)
        discussion_thread_id == ThreadCount + 1
        proposal_creation_params ==
            [ account_id |-> account.account_id,
              proposer_id |-> general.member_id,
              proposal_parameters |-> proposal_parameters,
              title |-> general.title,
              description |-> general.description,
              staking_account_id |-> general.staking_account_id,
              encoded_dispatchable_call_code |-> proposal_code,
              exact_execution_block |-> general.exact_execution_block ]
    IN  IF checks # "Ok" THEN Rejected("details_checks", checks, details)
        ELSE IF account.result # "Ok"
        THEN Rejected("member_origin", account.result, details)
        ELSE IF valid # "Ok" THEN Rejected("engine_parameters", valid, details)
        ELSE IF can_create # "Ok"
        THEN Rejected("can_create_thread", can_create, details)
        ELSE IF engine_result # "Ok"
        THEN AdmissionFailed(discussion_thread_id, general.member_id,
                             engine_result, details)
        ELSE Admitted(ProposalCount + 1, discussion_thread_id, general.member_id,
                      proposal_creation_params, details)

(***************************************************************************)
(* proposal_removed                                                        *)
(***************************************************************************)
\* a removal that leaves the details of the proposal in place
proposal_removed_keeps_details(proposal_id) ==
    LET thread_ids == remove(ThreadIdByProposalId, proposal_id)
        thread_id == thread_id_by_proposal_id(thread_ids, proposal_id)
    IN  /\ ThreadIdByProposalId' = thread_ids
        /\ UNCHANGED ProposalDetailsByProposalId
        /\ ThreadById' = remove(ThreadById, thread_id)
        /\ PostThreadIdByPostId' = remove_prefix(PostThreadIdByPostId, thread_id)
        /\ last' = [NoCall EXCEPT
                      !.op = "proposal_removed", !.result = "Ok",
                      !.proposal_id = proposal_id,
                      !.thread_id = thread_id_by_proposal_id(
                                        ThreadIdByProposalId, proposal_id),
                      !.had_record = proposal_id \in DOMAIN ThreadIdByProposalId,
                      !.again = /\ last.op = "proposal_removed"
                                /\ last.proposal_id = proposal_id]
        /\ UNCHANGED <<ThreadCount, PostCount, budgetVars, Code,
                       MinimumValidatorCount>>

proposal_removed(proposal_id) ==
    LET thread_ids == remove(ThreadIdByProposalId, proposal_id)
        proposal_details == remove(ProposalDetailsByProposalId, proposal_id)
        thread_id == thread_id_by_proposal_id(thread_ids, proposal_id)
    IN  /\ ThreadIdByProposalId' = thread_ids
        /\ ProposalDetailsByProposalId' = proposal_details
        /\ ThreadById' = remove(ThreadById, thread_id)
        /\ PostThreadIdByPostId' = remove_prefix(PostThreadIdByPostId, thread_id)
        /\ last' = [NoCall EXCEPT
                      !.op = "proposal_removed", !.result = "Ok",
                      !.proposal_id = proposal_id,
                      !.thread_id = thread_id_by_proposal_id(
                                        ThreadIdByProposalId, proposal_id),
                      !.had_record = proposal_id \in DOMAIN ThreadIdByProposalId,
                      !.again = /\ last.op = "proposal_removed"
                                /\ last.proposal_id = proposal_id]
        /\ UNCHANGED <<ThreadCount, PostCount, budgetVars, Code,
                       MinimumValidatorCount>>

(***************************************************************************)
(* The executors.                                                          *)
(***************************************************************************)
execute_signal_proposal(origin, signal) ==
    /\ last' = [NoCall EXCEPT !.op = "execute_signal_proposal",
                              !.result = ensure_root(origin), !.origin = origin]
    /\ UNCHANGED stateVars

\* frame_system::set_code: root only, and the new code must pass can_set_code
set_code(origin, code, version_ok) ==
    IF ensure_root(origin) # "Ok" THEN "BadOrigin"
    ELSE IF ~version_ok THEN "FailedToExtractRuntimeVersion"
    ELSE "Ok"

execute_runtime_upgrade_proposal(origin, wasm, version_ok) ==
    LET result == IF ensure_root(origin) # "Ok" THEN ensure_root(origin)
                  ELSE set_code(origin, wasm, version_ok)
    IN  /\ Code' = IF result = "Ok" THEN wasm ELSE Code
        /\ last' = [NoCall EXCEPT !.op = "execute_runtime_upgrade_proposal",
                                  !.result = result, !.origin = origin]
        /\ UNCHANGED <<codexVars, discussionVars, engineVars, budgetVars,
                       MinimumValidatorCount>>

\* the comparison of an off-by-one `ensure!(amount < balance, ..)`
has_funds_strict(amount, balance) == amount < balance

\* ensure!(amount <= balance, InsufficientFundsForBudgetUpdate)
has_funds(amount, balance) == amount <= balance

\* council: set_budget is root only
council_set_budget(origin, budget) ==
    IF ensure_root(origin) = "Ok"
    THEN [result |-> "Ok", budget |-> budget]
    ELSE [result |-> "BadOrigin", budget |-> Budget]

\* an update that sets the budget of every group, not of the named one alone
update_working_group_budget_every_group(origin, working_group, amount, balance_kind) ==
    LET wg_budget == WorkingGroupBudget[working_group]
        current_budget == Budget
        sufficient == IF balance_kind = "Positive"
                      THEN has_funds(amount, current_budget)
                      ELSE has_funds(amount, wg_budget)
        new_wg_budget == IF balance_kind = "Positive"
                         THEN saturating_add(wg_budget, amount)
                         ELSE wg_budget - amount
        set_budget == IF balance_kind = "Positive"
                      THEN council_set_budget(origin, current_budget - amount)
                      ELSE council_set_budget(
                               origin, saturating_add(current_budget, amount))
        result == IF ensure_root(origin) # "Ok" THEN ensure_root(origin)
                  ELSE IF ~sufficient THEN "InsufficientFundsForBudgetUpdate"
                  ELSE set_budget.result
    IN  /\ IF ensure_root(origin) = "Ok" /\ sufficient
           THEN /\ WorkingGroupBudget' =
                       [g \in WorkingGroup |-> new_wg_budget]
                /\ Budget' = set_budget.budget
           ELSE UNCHANGED budgetVars
        /\ last' = [NoCall EXCEPT !.op = "update_working_group_budget",
                                  !.result = result, !.origin = origin,
                                  !.working_group = working_group,
                                  !.amount = amount,
                                  !.balance_kind = balance_kind]
        /\ UNCHANGED <<codexVars, discussionVars, engineVars, Code,
                       MinimumValidatorCount>>

update_working_group_budget(origin, working_group, amount, balance_kind) ==
    LET wg_budget == WorkingGroupBudget[working_group]
        current_budget == Budget
        sufficient == IF balance_kind = "Positive"
                      THEN has_funds(amount, current_budget)
                      ELSE has_funds(amount, wg_budget)
        new_wg_budget == IF balance_kind = "Positive"
                         THEN saturating_add(wg_budget, amount)
                         ELSE wg_budget - amount
        set_budget == IF balance_kind = "Positive"
                      THEN council_set_budget(origin, current_budget - amount)
                      ELSE council_set_budget(
                               origin, saturating_add(current_budget, amount))
        result == IF ensure_root(origin) # "Ok" THEN ensure_root(origin)
                  ELSE IF ~sufficient THEN "InsufficientFundsForBudgetUpdate"
                  ELSE set_budget.result
    IN  /\ IF ensure_root(origin) = "Ok" /\ sufficient
           THEN /\ WorkingGroupBudget' =
                       [WorkingGroupBudget EXCEPT ![working_group] = new_wg_budget]
                /\ Budget' = set_budget.budget
           ELSE UNCHANGED budgetVars
        /\ last' = [NoCall EXCEPT !.op = "update_working_group_budget",
                                  !.result = result, !.origin = origin,
                                  !.working_group = working_group,
                                  !.amount = amount,
                                  !.balance_kind = balance_kind]
        /\ UNCHANGED <<codexVars, discussionVars, engineVars, Code,
                       MinimumValidatorCount>>

(***************************************************************************)
(* discussion: add_post, by a member, under an existing thread             *)
(***************************************************************************)
add_post(thread_id) ==
    /\ thread_id \in DOMAIN ThreadById
    /\ PostCount' = PostCount + 1
    /\ PostThreadIdByPostId' = PostThreadIdByPostId \cup {<<thread_id, PostCount + 1>>}
    /\ last' = [NoCall EXCEPT !.op = "add_post", !.result = "Ok",
                              !.thread_id = thread_id]
    /\ UNCHANGED <<codexVars, ThreadById, ThreadCount, engineVars, budgetVars,
                   Code, MinimumValidatorCount>>

(***************************************************************************)
(* The inputs and the specifications.                                      *)
(***************************************************************************)
Texts == {<<>>, <<1>>}

GeneralProposalParameters ==
    [ member_id : MemberIds, title : Texts, description : Texts,
      staking_account_id : {"None"}, exact_execution_block : {0} ]

\* the payloads submitted in the life cycle: a rejected one and two accepted
DetailsSubmitted == {Signal(<<>>), Signal(<<1>>), RuntimeUpgrade(<<1>>)}

EngineResults == {"Ok", "MaxActiveProposalNumberExceeded"}

InitialCode == <<0>>

InitCommon ==
    /\ ThreadIdByProposalId = <<>>
    /\ ProposalDetailsByProposalId = <<>>
    /\ ThreadById = <<>>
    /\ PostThreadIdByPostId = {}
    /\ ThreadCount = 0
    /\ PostCount = 0
    /\ Proposals = <<>>
    /\ ProposalCount = 0
    /\ Code = InitialCode
    /\ MinimumValidatorCount = 1
    /\ last = NoCall
    /\ applied = NoApplication

\* the chain after genesis, with one unit in the council budget
Init ==
    /\ InitCommon
    /\ Budget = 1
    /\ WorkingGroupBudget = [g \in WorkingGroup |-> 0]

\* the discussion module and the engine are asked only when the gates before
\* them have passed: their answers are drawn only then
AsksCollaborators(origin, general, details) ==
    /\ ensure_details_checks(details) = "Ok"
    /\ ensure_member_controller_account_origin(origin, general.member_id).result = "Ok"
    /\ ensure_create_proposal_parameters_are_valid(
           get_proposal_parameters(details), general.title, general.description,
           general.staking_account_id, general.exact_execution_block) = "Ok"

\* an input that a failed gate never reads is not drawn: one value stands for
\* all of them, the call and the state it leaves are the same
AnyGeneral == CHOOSE general \in GeneralProposalParameters : TRUE

CreateProposal ==
    /\ ThreadCount < MaxThreads
    /\ ProposalCount < MaxProposals
    /\ \E details \in DetailsSubmitted :
          IF ensure_details_checks(details) # "Ok"
          THEN create_proposal("Root", AnyGeneral, details, TRUE, "Ok")
          ELSE \E origin \in Origins, member_id \in MemberIds :
                  IF ensure_member_controller_account_origin(
                         origin, member_id).result # "Ok"
                  THEN create_proposal(
                           origin, [AnyGeneral EXCEPT !.member_id = member_id],
                           details, TRUE, "Ok")
                  ELSE \E general \in GeneralProposalParameters :
                          /\ general.member_id = member_id
                          /\ IF AsksCollaborators(origin, general, details)
                             THEN \E thread_allowed \in BOOLEAN,
                                     engine_result \in EngineResults :
                                     create_proposal(origin, general, details,
                                                     thread_allowed, engine_result)
                             ELSE create_proposal(origin, general, details, TRUE, "Ok")
    /\ UNCHANGED applied

\* the engine drops the proposal and notifies its observer
ProposalRemoved ==
    \E proposal_id \in 1..MaxProposals :
        /\ Proposals' = remove(Proposals, proposal_id)
        /\ UNCHANGED ProposalCount
        /\ proposal_removed(proposal_id)
        /\ UNCHANGED applied

ExecuteSignalProposal ==
    \E origin \in Origins, signal \in {<<1>>} :
        /\ execute_signal_proposal(origin, signal)
        /\ UNCHANGED applied

ExecuteRuntimeUpgradeProposal ==
    \E origin \in Origins, wasm \in {<<1>>}, version_ok \in BOOLEAN :
        /\ execute_runtime_upgrade_proposal(origin, wasm, version_ok)
        /\ UNCHANGED applied

UpdateWorkingGroupBudget(amounts) ==
    \E origin \in Origins, working_group \in WorkingGroup, amount \in amounts,
       balance_kind \in BalanceKind :
        /\ update_working_group_budget(origin, working_group, amount, balance_kind)
        /\ UNCHANGED applied

AddPost ==
    /\ PostCount < MaxPosts
    /\ \E thread_id \in 1..MaxThreads : add_post(thread_id)
    /\ UNCHANGED applied

Next ==
    \/ CreateProposal
    \/ ProposalRemoved
    \/ ExecuteSignalProposal
    \/ ExecuteRuntimeUpgradeProposal
    \/ UpdateWorkingGroupBudget({1})
    \/ AddPost

Spec == Init /\ [][Next]_vars

\* the budgets alone, from every pair of balances the two ledgers can hold
InitBudget ==
    /\ InitCommon
    /\ Budget \in Balance
    /\ WorkingGroupBudget \in [WorkingGroup -> Balance]

NextBudget == UpdateWorkingGroupBudget(Balance)

SpecBudget == InitBudget /\ [][NextBudget]_vars

\* the budgets, from every pair of balances, on a chain where alice has created
\* a Signal proposal and a member has posted under its thread
InitBudgetFrame ==
    /\ ThreadIdByProposalId = <<1>>
    /\ ProposalDetailsByProposalId = <<Signal(<<1>>)>>
    /\ ThreadById = <<[author_id |-> 1, mode |-> initial_thread_mode]>>
    /\ PostThreadIdByPostId = {<<1, 1>>}
    /\ ThreadCount = 1
    /\ PostCount = 1
    /\ Proposals =
          << [ account_id |-> "alice", proposer_id |-> 1,
               proposal_parameters |-> get_proposal_parameters(Signal(<<1>>)),
               title |-> <<1>>, description |-> <<1>>,
               staking_account_id |-> "None",
               encoded_dispatchable_call_code |-> encode_proposal(Signal(<<1>>)),
               exact_execution_block |-> 0 ] >>
    /\ ProposalCount = 1
    /\ Code = InitialCode
    /\ MinimumValidatorCount = 1
    /\ Budget \in Balance
    /\ WorkingGroupBudget \in [WorkingGroup -> Balance]
    /\ last = NoCall
    /\ applied = NoApplication

NextBudgetFrame == UpdateWorkingGroupBudget(Balance)

SpecBudgetFrame == InitBudgetFrame /\ [][NextBudgetFrame]_vars

(***************************************************************************)
(* One call on the genesis chain, with every variant and payload shape:    *)
(* the validator, the parameter lookup, the weight and create_proposal.    *)
(***************************************************************************)
\* the blob of n bytes
Blob(n) == [i \in 1..n |-> 1]
Blobs == {Blob(n) : n \in 0..MaxLen}

FundingAccounts == {1, 2}
FundingAmounts ==
    {0, 1, MAX_SPENDING_PROPOSAL_VALUE, MAX_SPENDING_PROPOSAL_VALUE + 1}
FundingRequestParameters == [account : FundingAccounts, amount : FundingAmounts]

\* every list of up to MaxLen requests
ShortFundingRequests ==
    UNION {[1..n -> FundingRequestParameters] : n \in 0..MaxLen}

\* n requests of one unit to the accounts 1..n
DistinctFundingRequests(n) == [i \in 1..n |-> [account |-> i, amount |-> 1]]

\* lists around the maximal length: distinct accounts and valid amounts up to
\* the last request, which repeats account 1 or not and has any of the amounts
LongFundingRequests ==
    { [DistinctFundingRequests(n) EXCEPT ![n] = [account |-> a, amount |-> b]] :
          n \in { MAX_FUNDING_REQUEST_ACCOUNTS - 1, MAX_FUNDING_REQUEST_ACCOUNTS,
                  MAX_FUNDING_REQUEST_ACCOUNTS + 1 },
          a \in {1, MAX_FUNDING_REQUEST_ACCOUNTS + 2}, b \in FundingAmounts }

\* the validator counts a proposal can carry, up to and above the maximum
ValidatorCounts == 0..(MAX_VALIDATOR_COUNT + 2)
\* the minimum validator counts the staking module can hold
MinimumValidatorCounts ==
    { 0, 1, MAX_VALIDATOR_COUNT - 1, MAX_VALIDATOR_COUNT, MAX_VALIDATOR_COUNT + 1 }

DetailsInputs ==
    {Signal(b) : b \in Blobs} \cup {RuntimeUpgrade(b) : b \in Blobs}
    \cup {FundingRequest(r) : r \in ShortFundingRequests \cup LongFundingRequests}
    \cup {SetMaxValidatorCount(n) : n \in ValidatorCounts}
    \cup {DecreaseWorkingGroupLeadStake(n) : n \in {0, 1}}
    \cup { ProposalDetails(tag, bytes, body, n, <<>>) :
              tag \in UncheckedTags, bytes \in Blobs, body \in Blobs, n \in {0, 1} }

\* the payloads create_proposal is called with: the short ones
CreationDetails ==
    { d \in DetailsInputs :
          Len(d.bytes) <= 1 /\ d.body = <<>> /\ Len(d.reqs) <= 1 /\ d.num <= 1 }

GeneralInputs ==
    [ member_id : {1}, title : Blobs, description : Blobs,
      staking_account_id : {"None"}, exact_execution_block : {0} ]

InitValidator ==
    /\ ThreadIdByProposalId = <<>>
    /\ ProposalDetailsByProposalId = <<>>
    /\ ThreadById = <<>>
    /\ PostThreadIdByPostId = {}
    /\ ThreadCount = 0
    /\ PostCount = 0
    /\ Proposals = <<>>
    /\ ProposalCount = 0
    /\ Code = InitialCode
    /\ Budget = 0
    /\ WorkingGroupBudget = [g \in WorkingGroup |-> 0]
    /\ MinimumValidatorCount \in MinimumValidatorCounts
    /\ last = NoCall
    /\ applied = NoApplication

EnsureDetailsChecks ==
    /\ applied = NoApplication
    /\ \E details \in DetailsInputs :
          applied' = [NoApplication EXCEPT
                        !.fn = "ensure_details_checks", !.details = details,
                        !.value = ensure_details_checks(details)]
    /\ UNCHANGED <<stateVars, last>>

GetProposalParameters ==
    /\ applied = NoApplication
    /\ \E details \in DetailsInputs :
          applied' = [NoApplication EXCEPT
                        !.fn = "get_proposal_parameters", !.details = details,
                        !.value = get_proposal_parameters(details)]
    /\ UNCHANGED <<stateVars, last>>

GetCreateProposalWeight ==
    /\ applied = NoApplication
    /\ \E general \in GeneralInputs, details \in DetailsInputs :
          applied' = [NoApplication EXCEPT
                        !.fn = "get_create_proposal_weight",
                        !.title = general.title,
                        !.description = general.description,
                        !.details = details,
                        !.weight = get_create_proposal_weight(general, details)]
    /\ UNCHANGED <<stateVars, last>>

CreateProposalOnGenesis ==
    /\ applied = NoApplication
    /\ \E origin \in Origins, general \in GeneralProposalParameters,
          details \in CreationDetails, thread_allowed \in BOOLEAN,
          engine_result \in EngineResults :
          /\ create_proposal(origin, general, details, thread_allowed,
                             engine_result)
          /\ applied' = [NoApplication EXCEPT
                           !.fn = "create_proposal", !.origin = origin,
                           !.member_id = general.member_id,
                           !.title = general.title,
                           !.description = general.description,
                           !.details = details,
                           !.thread_allowed = thread_allowed,
                           !.engine_result = engine_result]

NextValidator ==
    \/ EnsureDetailsChecks
    \/ GetProposalParameters
    \/ GetCreateProposalWeight
    \/ CreateProposalOnGenesis

SpecValidator == InitValidator /\ [][NextValidator]_vars

(***************************************************************************)
(* Properties.                                                             *)
(***************************************************************************)
Executors ==
    { "execute_signal_proposal", "execute_runtime_upgrade_proposal",
      "update_working_group_budget" }

\* C1: after create_proposal has recorded thread T for proposal P,
\* proposal_removed(P) leaves no ThreadIdByProposalId entry and no
\* ProposalDetailsByProposalId entry for P, no thread record for T and no post
\* keyed under T.
C1_RemovedLeavesNothing ==
    [][ ( /\ last'.op = "proposal_removed"
          /\ last'.proposal_id \in DOMAIN ThreadIdByProposalId )
        => LET P == last'.proposal_id
               T == ThreadIdByProposalId[P]
           IN  /\ P \notin DOMAIN ThreadIdByProposalId'
               /\ P \notin DOMAIN ProposalDetailsByProposalId'
               /\ T \notin DOMAIN ThreadById'
               /\ \A k \in PostThreadIdByPostId' : k[1] # T ]_vars

\* C2: a successful create_proposal opens exactly one new thread, in Open mode,
\* admits exactly one proposal in the engine and writes exactly one codex record,
\* under the id P the engine minted: ThreadIdByProposalId[P] is the thread opened
\* in this call and ProposalDetailsByProposalId[P] is the submitted details.
C2_CreateWritesOneRecord ==
    [][ (last'.op = "create_proposal" /\ last'.result = "Ok")
        => LET P == last'.proposal_id
               T == last'.thread_id
           IN  /\ T \notin DOMAIN ThreadById
               /\ DOMAIN ThreadById' = DOMAIN ThreadById \cup {T}
               /\ ThreadById'[T].mode = "Open"
               /\ \A t \in DOMAIN ThreadById : ThreadById'[t] = ThreadById[t]
               /\ P \notin DOMAIN Proposals
               /\ DOMAIN Proposals' = DOMAIN Proposals \cup {P}
               /\ P = ProposalCount'
               /\ \A p \in DOMAIN Proposals : Proposals'[p] = Proposals[p]
               /\ P \notin DOMAIN ThreadIdByProposalId
               /\ P \notin DOMAIN ProposalDetailsByProposalId
               /\ ThreadIdByProposalId' = insert(ThreadIdByProposalId, P, T)
               /\ ProposalDetailsByProposalId' =
                      insert(ProposalDetailsByProposalId, P, last'.details)
               /\ last'.details \in DetailsSubmitted
               /\ ProposalDetailsByProposalId'[P] # encode_proposal(last'.details)
      ]_vars

\* a second proposal has been created, after a thread that was left without one
C2_Witness ==
    /\ last.op = "create_proposal"
    /\ last.result = "Ok"
    /\ last.proposal_id \in DOMAIN ProposalDetailsByProposalId
    /\ ThreadIdByProposalId[last.proposal_id] = last.thread_id
    /\ last.thread_id # last.proposal_id

\* C3: proposal_removed is idempotent: a second proposal_removed(P) right after
\* the first raises no error and leaves the codex maps, the threads and the posts
\* as the first call left them.
C3_RemovedIdempotent ==
    [][ ( /\ last.op = "proposal_removed"
          /\ last'.op = "proposal_removed"
          /\ last'.proposal_id = last.proposal_id )
        => /\ last'.result = "Ok"
           /\ UNCHANGED <<codexVars, ThreadById, PostThreadIdByPostId>> ]_vars

\* proposal_removed(P) has run twice in a row for a proposal that had been
\* created, with another record, a thread and a post still stored
C3_Witness ==
    /\ last.op = "proposal_removed"
    /\ last.again
    /\ last.proposal_id <= ProposalCount
    /\ last.proposal_id \notin DOMAIN ThreadIdByProposalId
    /\ ThreadIdByProposalId # <<>>
    /\ PostThreadIdByPostId # {}

\* C4: proposal_removed(P) for a P without codex record removes nothing: the
\* codex maps, the thread records and the posts are as before the call.
C4_RemovedAbsentIsNoOp ==
    [][ ( /\ last'.op = "proposal_removed"
          /\ last'.proposal_id \notin DOMAIN ThreadIdByProposalId
          /\ last'.proposal_id \notin DOMAIN ProposalDetailsByProposalId )
        => UNCHANGED <<codexVars, ThreadById, PostThreadIdByPostId>> ]_vars

\* proposal_removed has run for an id without record while a record, threads
\* and a post were stored
C4_Witness ==
    /\ last.op = "proposal_removed"
    /\ ~last.had_record
    /\ ThreadIdByProposalId # <<>>
    /\ last.proposal_id \in DOMAIN ThreadById
    /\ PostThreadIdByPostId # {}

\* C5: a create_proposal that fails at the details checks, at the member origin
\* check, at the engine's parameter validation or at the can-create-thread
\* check changes nothing.
C5_EarlyGatesChangeNothing ==
    [][ ( /\ last'.op = "create_proposal"
          /\ last'.gate \in { "details_checks", "member_origin",
                              "engine_parameters", "can_create_thread" } )
        => /\ last'.result # "Ok"
           /\ UNCHANGED stateVars ]_vars

\* the can-create-thread check has failed after a proposal had been created
C5_Witness ==
    /\ last.op = "create_proposal"
    /\ last.gate = "can_create_thread"
    /\ last.result = "CannotCreateThread"
    /\ ProposalCount = 1
    /\ ThreadCount = 1

\* C6: when the engine's create_proposal fails after the thread was opened,
\* create_proposal returns the engine's error, writes no codex entry, and the
\* thread opened in the call stays stored.
C6_FailedAdmissionKeepsThread ==
    [][ (last'.op = "create_proposal" /\ last'.gate = "engine_create_proposal")
        => /\ last'.result \in EngineResults \ {"Ok"}
           /\ UNCHANGED codexVars
           /\ UNCHANGED engineVars
           /\ last'.thread_id \notin DOMAIN ThreadById
           /\ last'.thread_id \in DOMAIN ThreadById'
           /\ ThreadCount' = ThreadCount + 1 ]_vars

\* the engine has refused a proposal and the thread opened for it is stored,
\* with no codex record naming it
C6_Witness ==
    /\ last.op = "create_proposal"
    /\ last.gate = "engine_create_proposal"
    /\ last.thread_id \in DOMAIN ThreadById
    /\ \A p \in DOMAIN ThreadIdByProposalId :
           ThreadIdByProposalId[p] # last.thread_id

C8_NegativeSaturating ==
    [][ ( /\ last'.op = "update_working_group_budget"
          /\ last'.origin = "Root"
          /\ last'.balance_kind = "Negative" )
        => LET a == last'.amount
               G == last'.working_group
           IN  IF a <= WorkingGroupBudget[G]
               THEN /\ last'.result = "Ok"
                    /\ WorkingGroupBudget'[G] = WorkingGroupBudget[G] - a
                    /\ Budget' = Min(Budget + a, MaxBalance)
               ELSE /\ last'.result = "InsufficientFundsForBudgetUpdate"
                    /\ UNCHANGED budgetVars ]_vars

\* a Negative update of a group's whole budget has succeeded with the council
\* budget at the maximum
C8_Witness ==
    /\ last.op = "update_working_group_budget"
    /\ last.origin = "Root"
    /\ last.balance_kind = "Negative"
    /\ last.result = "Ok"
    /\ last.amount >= 1
    /\ WorkingGroupBudget[last.working_group] = 0
    /\ Budget = MaxBalance

\* C9: an executor called with an origin that is not root fails and changes
\* nothing: the runtime code, the budgets and the codex records are as before.
C9_ExecutorsRootOnly ==
    [][ (last'.op \in Executors /\ last'.origin # "Root")
        => /\ last'.result # "Ok"
           /\ UNCHANGED stateVars ]_vars

\* update_working_group_budget has been refused to a signed origin, with funds
\* in the council budget and a codex record stored
C9_Witness ==
    /\ last.op = "update_working_group_budget"
    /\ last.origin \in Accounts
    /\ last.balance_kind = "Positive"
    /\ last.amount <= Budget
    /\ last.amount >= 1
    /\ ThreadIdByProposalId # <<>>

\* C10: execute_runtime_upgrade_proposal called by an origin other than root is
\* rejected with the codex error RequireRootOrigin.
C10_RequireRootOrigin ==
    (last.op = "execute_runtime_upgrade_proposal" /\ last.origin # "Root")
        => last.result = "RequireRootOrigin"

(***************************************************************************)
(* The details validator.                                                  *)
(***************************************************************************)
\* an amount the FundingRequest arm lets through
AmountInRange(amount) == 0 < amount /\ amount <= 5000000

\* the index of a request whose account an earlier request already has
RepeatedAt(funding_requests) ==
    { i \in 1..Len(funding_requests) :
         \E j \in 1..(i - 1) : funding_requests[j].account = funding_requests[i].account }

\* C11: the validator accepts a FundingRequest list exactly when it has 1 to 100
\* requests, no account twice and every amount above 0 and at most 5,000,000.
C11_FundingRequestAccepted ==
    ( /\ applied.fn = "ensure_details_checks"
      /\ applied.details.tag = "FundingRequest" )
    => LET funding_requests == applied.details.reqs
       IN  applied.value = "Ok"
           <=> /\ Len(funding_requests) >= 1
               /\ Len(funding_requests) <= 100
               /\ RepeatedAt(funding_requests) = {}
               /\ \A i \in 1..Len(funding_requests) :
                     AmountInRange(funding_requests[i].amount)

\* a list of exactly 100 requests has been accepted
C11_Witness ==
    /\ applied.fn = "ensure_details_checks"
    /\ applied.details.tag = "FundingRequest"
    /\ Len(applied.details.reqs) = 100
    /\ applied.value = "Ok"

\* a FundingRequest list of 1 to 100 requests in which an account repeats
RepeatingFundingRequest ==
    /\ applied.fn = "ensure_details_checks"
    /\ applied.details.tag = "FundingRequest"
    /\ Len(applied.details.reqs) >= 1
    /\ Len(applied.details.reqs) <= 100
    /\ RepeatedAt(applied.details.reqs) # {}

\* C12 as stated: every FundingRequest list of 1 to 100 requests in which an
\* account repeats is rejected with InvalidFundingRequestProposalRepeatedAccount,
\* whatever the amounts.
C12_RepeatedAccountAlways ==
    RepeatingFundingRequest
    => applied.value = "InvalidFundingRequestProposalRepeatedAccount"

\* C12: every FundingRequest list of 1 to 100 requests in which an account
\* repeats is rejected: with InvalidFundingRequestProposalRepeatedAccount when
\* every request before the first repeated one has an amount above 0 and at most
\* 5,000,000, whatever the later amounts, and with
\* InvalidFundingRequestProposalBalance otherwise.
C12_RepeatedAccountFirst ==
    RepeatingFundingRequest
    => LET funding_requests == applied.details.reqs
           repeated == RepeatedAt(funding_requests)
           first == CHOOSE i \in repeated : \A j \in repeated : i <= j
       IN  IF \A k \in 1..(first - 1) : AmountInRange(funding_requests[k].amount)
           THEN applied.value = "InvalidFundingRequestProposalRepeatedAccount"
           ELSE applied.value = "InvalidFundingRequestProposalBalance"

\* a list whose repeated request carries an amount out of range has been
\* rejected for the repeated account
C12_Witness ==
    /\ RepeatingFundingRequest
    /\ \E i \in RepeatedAt(applied.details.reqs) :
          ~AmountInRange(applied.details.reqs[i].amount)
    /\ applied.value = "InvalidFundingRequestProposalRepeatedAccount"

\* a SetMaxValidatorCount(v) has been checked
CheckedValidatorCount ==
    /\ applied.fn = "ensure_details_checks"
    /\ applied.details.tag = "SetMaxValidatorCount"

\* C13 as stated: for every minimum validator count m, v = m is accepted,
\* v = m - 1 is rejected with InvalidValidatorCount, v = 100 is accepted and
\* v = 101 is rejected with InvalidValidatorCount.
C13_ValidatorCountEveryMinimum ==
    CheckedValidatorCount
    => LET v == applied.details.num
           m == MinimumValidatorCount
       IN  /\ v = m => applied.value = "Ok"
           /\ v = m - 1 => applied.value = "InvalidValidatorCount"
           /\ v = 100 => applied.value = "Ok"
           /\ v = 101 => applied.value = "InvalidValidatorCount"

\* C13: for every minimum validator count m of at most 100, v = m is accepted
\* and v = 100 is accepted; for every m, v = m - 1 is rejected with
\* InvalidValidatorCount and v = 101 is rejected with InvalidValidatorCount; for
\* m above 100 every v is rejected with InvalidValidatorCount.
C13_ValidatorCountBounds ==
    CheckedValidatorCount
    => LET v == applied.details.num
           m == MinimumValidatorCount
       IN  /\ (v = m /\ m <= 100) => applied.value = "Ok"
           /\ v = m - 1 => applied.value = "InvalidValidatorCount"
           /\ (v = 100 /\ m <= 100) => applied.value = "Ok"
           /\ v = 101 => applied.value = "InvalidValidatorCount"
           /\ m > 100 => applied.value = "InvalidValidatorCount"

\* a count equal to a minimum below the maximum has been accepted
C13_Witness ==
    /\ CheckedValidatorCount
    /\ applied.details.num = MinimumValidatorCount
    /\ MinimumValidatorCount = 99
    /\ applied.value = "Ok"

\* C14: a Signal is rejected with SignalProposalIsEmpty exactly when its text is
\* empty, a RuntimeUpgrade with RuntimeProposalIsEmpty exactly when its blob is
\* empty; every non-empty payload passes.
C14_EmptyPayloads ==
    applied.fn = "ensure_details_checks"
    => /\ applied.details.tag = "Signal"
          => applied.value =
                IF applied.details.bytes = <<>> THEN "SignalProposalIsEmpty" ELSE "Ok"
       /\ applied.details.tag = "RuntimeUpgrade"
          => applied.value =
                IF applied.details.bytes = <<>> THEN "RuntimeProposalIsEmpty" ELSE "Ok"

\* a non-empty Signal has passed
C14_Witness ==
    /\ applied.fn = "ensure_details_checks"
    /\ applied.details.tag = "Signal"
    /\ applied.details.bytes # <<>>
    /\ applied.value = "Ok"

ConfiguredParameters ==
    { "SetMaxValidatorCountProposalParameters", "RuntimeUpgradeProposalParameters",
      "SignalProposalParameters", "FundingRequestProposalParameters",
      "CreateWorkingGroupLeadOpeningProposalParameters",
      "FillWorkingGroupLeadOpeningProposalParameters",
      "UpdateWorkingGroupBudgetProposalParameters",
      "DecreaseWorkingGroupLeadStakeProposalParameters",
      "SlashWorkingGroupLeadProposalParameters",
      "SetWorkingGroupLeadRewardProposalParameters",
      "TerminateWorkingGroupLeadProposalParameters",
      "AmendConstitutionProposalParameters",
      "CancelWorkingGroupLeadOpeningProposalParameters",
      "SetMembershipPriceProposalParameters",
      "SetCouncilBudgetIncrementProposalParameters",
      "SetCouncilorRewardProposalParameters",
      "SetInitialInvitationBalanceProposalParameters",
      "SetInvitationCountProposalParameters",
      "SetMembershipLeadInvitationQuotaProposalParameters",
      "SetReferralCutProposalParameters", "CreateBlogPostProposalParameters",
      "EditBlogPostProoposalParamters", "LockBlogPostProposalParameters",
      "UnlockBlogPostProposalParameters" }

\* C16: get_proposal_parameters returns, for each of the 24 variants, one of
\* the configured records; two payloads get the same record exactly when they
\* have the same variant tag, whatever their contents and the chain state; and
\* the proposal create_proposal admits carries the record of its variant.
C16_ParametersByTag ==
    /\ applied.fn = "get_proposal_parameters"
       => /\ applied.value \in ConfiguredParameters
          /\ \A details \in DetailsInputs :
                (details.tag = applied.details.tag)
                <=> (get_proposal_parameters(details) = applied.value)
    /\ (applied.fn = "create_proposal" /\ last.result = "Ok")
       => /\ Proposals[last.proposal_id].proposal_parameters \in ConfiguredParameters
          /\ \A details \in DetailsInputs :
                (details.tag = applied.details.tag)
                <=> ( get_proposal_parameters(details)
                      = Proposals[last.proposal_id].proposal_parameters )

\* a FundingRequest has been admitted with the FundingRequest parameters
C16_Witness ==
    /\ applied.fn = "create_proposal"
    /\ last.result = "Ok"
    /\ applied.details.tag = "FundingRequest"
    /\ Proposals[last.proposal_id].proposal_parameters
          = "FundingRequestProposalParameters"

(***************************************************************************)
(* The weight.                                                             *)
(***************************************************************************)
\* the general parameters of the weighed call, with another title
WithTitle(title) ==
    [ member_id |-> 1, title |-> title, description |-> applied.description,
      staking_account_id |-> "None", exact_execution_block |-> 0 ]

\* the general parameters of the weighed call, with another description
WithDescription(description) ==
    [ member_id |-> 1, title |-> applied.title, description |-> description,
      staking_account_id |-> "None", exact_execution_block |-> 0 ]

\* a text of the same length and other bytes
OtherText(text) == [i \in 1..Len(text) |-> 0]

\* a payload of the same variant and the same lengths, with other contents
OtherContents(details, n) ==
    [ tag |-> details.tag, bytes |-> OtherText(details.bytes),
      body |-> OtherText(details.body), num |-> n,
      reqs |-> [i \in 1..Len(details.reqs) |-> [account |-> 2, amount |-> 0]] ]

\* the weight is a value, and it depends on the variant tag and on lengths only
WeightByLengths ==
    /\ applied.weight \in Nat
    /\ \A n \in {0, 1, MAX_VALIDATOR_COUNT + 1} :
          get_create_proposal_weight(
              [ member_id |-> 2, title |-> OtherText(applied.title),
                description |-> OtherText(applied.description),
                staking_account_id |-> "bob", exact_execution_block |-> 1 ],
              OtherContents(applied.details, n)) = applied.weight

\* C17 as stated: the weight depends only on the tag and on lengths, and for
\* every variant a longer title or a longer description, everything else fixed,
\* gives a strictly larger weight.
C17_WeightStrictlyIncreasing ==
    applied.fn = "get_create_proposal_weight"
    => /\ WeightByLengths
       /\ \A text \in Blobs :
             /\ Len(text) > Len(applied.title)
                => get_create_proposal_weight(WithTitle(text), applied.details)
                      > applied.weight
             /\ Len(text) > Len(applied.description)
                => get_create_proposal_weight(WithDescription(text), applied.details)
                      > applied.weight

\* the variants whose weight function takes the title length
TitleWeighed ==
    { "Signal", "RuntimeUpgrade", "DecreaseWorkingGroupLeadStake",
      "SlashWorkingGroupLead", "AmendConstitution",
      "CancelWorkingGroupLeadOpening", "SetCouncilorReward",
      "SetInitialInvitationBalance", "SetMembershipLeadInvitationQuota",
      "SetReferralCut", "CreateBlogPost", "EditBlogPost", "LockBlogPost" }

\* the variants whose weight function takes the description length
DescriptionWeighed ==
    { "Signal", "RuntimeUpgrade", "SetMaxValidatorCount",
      "UpdateWorkingGroupBudget", "DecreaseWorkingGroupLeadStake",
      "SlashWorkingGroupLead", "SetWorkingGroupLeadReward", "AmendConstitution",
      "CancelWorkingGroupLeadOpening", "SetInitialInvitationBalance",
      "CreateBlogPost", "EditBlogPost" }

\* C17: the weight depends only on the tag and on lengths; a longer title or a
\* longer description, everything else fixed, never gives a smaller weight; it
\* gives a strictly larger weight for the variants whose weight function takes
\* that length, and the same weight for the other variants.
C17_WeightNonDecreasing ==
    applied.fn = "get_create_proposal_weight"
    => /\ WeightByLengths
       /\ \A text \in Blobs :
             /\ Len(text) > Len(applied.title)
                => LET longer == get_create_proposal_weight(
                                     WithTitle(text), applied.details)
                   IN  IF applied.details.tag \in TitleWeighed
                       THEN longer > applied.weight
                       ELSE longer = applied.weight
             /\ Len(text) > Len(applied.description)
                => LET longer == get_create_proposal_weight(
                                     WithDescription(text), applied.details)
                   IN  IF applied.details.tag \in DescriptionWeighed
                       THEN longer > applied.weight
                       ELSE longer = applied.weight

\* a SetCouncilorReward has been weighed with a title that can be lengthened
C17_Witness ==
    /\ applied.fn = "get_create_proposal_weight"
    /\ applied.details.tag = "SetCouncilorReward"
    /\ Len(applied.title) < MaxLen
    /\ Len(applied.description) < MaxLen

(***************************************************************************)
(* The codex records.                                                      *)
(***************************************************************************)
\* C18: the codex record of a proposal keeps its thread id and its details
\* through every operation other than proposal_removed of that proposal: no
\* other operation deletes or rewrites it.
C18_RecordStaysUntilRemoved ==
    [][ \A P \in DOMAIN ThreadIdByProposalId \cup DOMAIN ProposalDetailsByProposalId :
           \/ last'.op = "proposal_removed" /\ last'.proposal_id = P
           \/ /\ P \in DOMAIN ThreadIdByProposalId
                 => /\ P \in DOMAIN ThreadIdByProposalId'
                    /\ ThreadIdByProposalId'[P] = ThreadIdByProposalId[P]
              /\ P \in DOMAIN ProposalDetailsByProposalId
                 => /\ P \in DOMAIN ProposalDetailsByProposalId'
                    /\ ProposalDetailsByProposalId'[P]
                          = ProposalDetailsByProposalId[P] ]_vars

\* the record of proposal 1 is there after proposal 2 was created and removed
C18_Witness ==
    /\ last.op = "proposal_removed"
    /\ last.proposal_id = 2
    /\ last.had_record
    /\ 1 \in DOMAIN ThreadIdByProposalId
    /\ 1 \in DOMAIN ProposalDetailsByProposalId

\* C19: create_proposal returns the error of the first failing gate in the
\* order details checks, member origin, engine parameter validation,
\* can-create-thread, engine admission; the thread is created exactly when the
\* first four gates pass, the codex record is written exactly when all pass.
C19_FirstFailingGate ==
    applied.fn = "create_proposal"
    => LET gates ==
               << ensure_details_checks(applied.details),
                  ensure_member_controller_account_origin(
                      applied.origin, applied.member_id).result,
                  ensure_create_proposal_parameters_are_valid(
                      get_proposal_parameters(applied.details), applied.title,
                      applied.description, "None", 0),
                  ensure_can_create_thread("Open", applied.thread_allowed),
                  applied.engine_result >>
           failing == {i \in 1..5 : gates[i] # "Ok"}
       IN  /\ last.op = "create_proposal"
           /\ last.result =
                 IF failing = {} THEN "Ok"
                 ELSE gates[CHOOSE i \in failing : \A j \in failing : i <= j]
           /\ (ThreadById # <<>>) <=> (failing \cap (1..4) = {})
           /\ (ThreadIdByProposalId # <<>>) <=> (failing = {})
           /\ (ProposalDetailsByProposalId # <<>>) <=> (failing = {})

\* an empty Signal sent by an origin that does not control the member has been
\* rejected for the payload
C19_Witness ==
    /\ applied.fn = "create_proposal"
    /\ applied.details = Signal(<<>>)
    /\ ensure_member_controller_account_origin(
           applied.origin, applied.member_id).result # "Ok"
    /\ last.result = "SignalProposalIsEmpty"

\* C20: the two codex maps have the same key set.
C20_SameKeys ==
    DOMAIN ThreadIdByProposalId = DOMAIN ProposalDetailsByProposalId

\* one proposal has been removed while another has its record
C20_Witness ==
    /\ last.op = "proposal_removed"
    /\ last.had_record
    /\ DOMAIN ThreadIdByProposalId # {}
    /\ DOMAIN ProposalDetailsByProposalId # {}

(***************************************************************************)
(* The frame of proposal_removed.                                          *)
(***************************************************************************)
\* the posts of a thread
PostsOf(posts, thread_id) == {k \in posts : k[1] = thread_id}

\* C21: proposal_removed(P) leaves, for every other proposal Q with a codex
\* record, Q's two codex entries, Q's thread record and the posts of Q's thread
\* as they were, and removes no thread other than the one recorded for P.
C21_RemovedTouchesOnlyItsOwn ==
    [][ last'.op = "proposal_removed"
        => LET P == last'.proposal_id
           IN  /\ \A Q \in DOMAIN ThreadIdByProposalId \ {P} :
                     LET thread_id == ThreadIdByProposalId[Q]
                     IN  /\ Q \in DOMAIN ThreadIdByProposalId'
                         /\ ThreadIdByProposalId'[Q] = thread_id
                         /\ Q \in DOMAIN ProposalDetailsByProposalId'
                         /\ ProposalDetailsByProposalId'[Q]
                               = ProposalDetailsByProposalId[Q]
                         /\ thread_id \in DOMAIN ThreadById
                         /\ thread_id \in DOMAIN ThreadById'
                         /\ ThreadById'[thread_id] = ThreadById[thread_id]
                         /\ PostsOf(PostThreadIdByPostId', thread_id)
                               = PostsOf(PostThreadIdByPostId, thread_id)
               /\ \A thread_id \in DOMAIN ThreadById \ DOMAIN ThreadById' :
                     /\ P \in DOMAIN ThreadIdByProposalId
                     /\ thread_id = ThreadIdByProposalId[P] ]_vars

\* proposal 1 has been removed while proposal 2 has its record, its thread and
\* a post under its thread
C21_Witness ==
    /\ last.op = "proposal_removed"
    /\ last.proposal_id = 1
    /\ last.had_record
    /\ 2 \in DOMAIN ThreadIdByProposalId
    /\ ThreadIdByProposalId[2] \in DOMAIN ThreadById
    /\ PostsOf(PostThreadIdByPostId, ThreadIdByProposalId[2]) # {}

(***************************************************************************)
(* The budgets as a whole.                                                 *)
(***************************************************************************)
RECURSIVE SumOver(_, _)
\* the sum of the budgets of the given groups
SumOver(budgets, groups) ==
    IF groups = {} THEN 0
    ELSE LET g == CHOOSE x \in groups : TRUE
         IN  budgets[g] + SumOver(budgets, groups \ {g})

\* the council budget and all working-group budgets together
TotalFunds(council_budget, budgets) ==
    council_budget + SumOver(budgets, WorkingGroup)

\* C22: every update_working_group_budget call, successful or failed, of either
\* kind, leaves the sum of the council budget and all working-group budgets as
\* it was, also when the receiving side reaches the maximum balance.
C22_FundsConserved ==
    [][ last'.op = "update_working_group_budget"
        => TotalFunds(Budget', WorkingGroupBudget')
              = TotalFunds(Budget, WorkingGroupBudget) ]_vars

\* C23: update_working_group_budget(G, amount, kind) changes nothing except the
\* council budget and the budget of G: the budgets of the other groups, both
\* codex maps, the discussion threads and their posts, and the runtime code are
\* as before, whether the call succeeds or fails.
C23_BudgetUpdateFrame ==
    [][ last'.op = "update_working_group_budget"
        => /\ \A g \in WorkingGroup \ {last'.working_group} :
                 WorkingGroupBudget'[g] = WorkingGroupBudget[g]
           /\ UNCHANGED <<codexVars, discussionVars, engineVars, Code,
                          MinimumValidatorCount>> ]_vars

\* a budget update has succeeded while a proposal has its record, its thread
\* and a post, and another group holds funds
C23_Witness ==
    /\ last.op = "update_working_group_budget"
    /\ last.result = "Ok"
    /\ ThreadIdByProposalId # <<>>
    /\ ThreadById # <<>>
    /\ PostThreadIdByPostId # {}
    /\ \E g \in WorkingGroup \ {last.working_group} : WorkingGroupBudget[g] > 0

====
